---- MODULE Spec2Model ----
(***************************************************************************)
(* A model of mcsv (include/mcsv/mcsv.hpp): the default_loader storage     *)
(* and the masked dataframe views over it.                                 *)
(*                                                                         *)
(* A std::string is a sequence of one-character strings, so that trimming, *)
(* ordering and numeric conversion are computed character by character.    *)
(* Indices are 1-based here; the C++ index i is i+1 in the model, except   *)
(* in the arguments of default_loader::at, which keep the C++ numbering.   *)
(***************************************************************************)
EXTENDS Integers, Sequences, FiniteSets, TLC

VARIABLES loaders, views, last

vars == <<loaders, views, last>>

(***************************************************************************)
(* Bounds of the model.                                                    *)
(***************************************************************************)
MaxLoaders == 2
MaxViews == 3
MaxHeaderLen == 3
MaxTarget == 2
MaxArity == 2
MaxIndex == 3

(***************************************************************************)
(* Characters and strings.                                                 *)
(***************************************************************************)
CharCode == (" " :> 32) @@ ("-" :> 45) @@ ("0" :> 48) @@ ("1" :> 49) @@ ("2" :> 50)
            @@ ("a" :> 97) @@ ("b" :> 98) @@ ("c" :> 99) @@ ("x" :> 120) @@ ("z" :> 122)

isspace(c) == c = " "

isdigit(c) == CharCode[c] >= 48 /\ CharCode[c] <= 57

\* std::string operator<: lexicographic on the character codes.
RECURSIVE StrLess(_, _)
StrLess(s, t) ==
    IF t = <<>> THEN FALSE
    ELSE IF s = <<>> THEN TRUE
    ELSE IF CharCode[Head(s)] # CharCode[Head(t)] THEN CharCode[Head(s)] < CharCode[Head(t)]
    ELSE StrLess(Tail(s), Tail(t))

\* linestream >> std::ws: drop the leading whitespace of a token.
RECURSIVE SkipWs(_)
SkipWs(s) == IF s # <<>> /\ isspace(Head(s)) THEN SkipWs(Tail(s)) ELSE s

\* cell.erase(find_if(rbegin, rend, !isspace).base(), end): drop the trailing whitespace.
RECURSIVE EraseTrailingWs(_)
EraseTrailingWs(s) ==
    IF s # <<>> /\ isspace(s[Len(s)]) THEN EraseTrailingWs(SubSeq(s, 1, Len(s) - 1)) ELSE s

\* vector::resize(n): cut at n, or fill up with empty strings.
resize(cells, n) == [k \in 1..n |-> IF k <= Len(cells) THEN cells[k] ELSE <<>>]

\* extract_line on a line given as its comma-separated pieces; expected_size = -1 is std::nullopt.
extract_line(line, expected_size) ==
    LET cells == [k \in 1..Len(line) |-> EraseTrailingWs(SkipWs(line[k]))]
    IN IF expected_size # -1 THEN resize(cells, expected_size) ELSE cells

(***************************************************************************)
(* throw_if_duplicates: std::sort, std::unique on a copy, compare.         *)
(***************************************************************************)
RECURSIVE Insert(_, _)
Insert(x, sorted) ==
    IF sorted = <<>> THEN <<x>>
    ELSE IF StrLess(x, Head(sorted)) THEN <<x>> \o sorted
    ELSE <<Head(sorted)>> \o Insert(x, Tail(sorted))

RECURSIVE sort(_)
sort(s) == IF s = <<>> THEN <<>> ELSE Insert(Head(s), sort(Tail(s)))

\* std::adjacent_find: the first position k with s[k] = s[k+1], or Len(s)+1 (last).
RECURSIVE adjacent_find(_, _)
adjacent_find(s, k) ==
    IF k >= Len(s) THEN Len(s) + 1
    ELSE IF s[k] = s[k + 1] THEN k
    ELSE adjacent_find(s, k + 1)

\* The copy loop of std::unique: *++dest = std::move(*first). The moved-from
\* string is valid but unspecified: it is emptied when movedFromEmpty, else kept.
RECURSIVE UniqueLoop(_, _, _, _)
UniqueLoop(s, dest, first, movedFromEmpty) ==
    IF first > Len(s) THEN s
    ELSE IF s[dest] # s[first]
         THEN LET moved == [s EXCEPT ![dest + 1] = s[first]]
                  after == IF movedFromEmpty /\ dest + 1 # first
                           THEN [moved EXCEPT ![first] = <<>>]
                           ELSE moved
              IN UniqueLoop(after, dest + 1, first + 1, movedFromEmpty)
         ELSE UniqueLoop(s, dest, first + 1, movedFromEmpty)

\* std::unique(begin, end), its returned iterator discarded: the container keeps its length.
unique(s, movedFromEmpty) ==
    LET k == adjacent_find(s, 1)
    IN IF k > Len(s) THEN s ELSE UniqueLoop(s, k, k + 2, movedFromEmpty)

\* TRUE when throw_if_duplicates throws.
throw_if_duplicates(header, movedFromEmpty) ==
    LET ref_header == sort(header)
        test_header == unique(ref_header, movedFromEmpty)
    IN test_header # ref_header

(***************************************************************************)
(* default_loader.                                                         *)
(***************************************************************************)
\* m_header_map[m_header[i]] = i for i ascending: a later column overwrites an earlier one.
header_map(m_header) ==
    [name \in {m_header[i] : i \in DOMAIN m_header} |->
        CHOOSE i \in DOMAIN m_header :
            /\ m_header[i] = name
            /\ \A j \in DOMAIN m_header : m_header[j] = name => j <= i]

\* A file is its lines, each line its comma-separated pieces; the first line is the header.
default_loader(file) ==
    LET m_header == extract_line(file[1], -1)
    IN [m_header |-> m_header,
        m_header_map |-> header_map(m_header),
        m_data |-> [r \in 1..(Len(file) - 1) |-> extract_line(file[r + 1], Len(m_header))]]

\* The first bounds test of at(): TRUE when it throws.
at_row_throws(loader, row) == Len(loader.m_data) < row

\* The second bounds test of at(): TRUE when it throws.
at_col_throws(loader, col) == Len(loader.m_header) < col

\* m_data[row][col] with unchecked operator[]: inside the table the cell, outside
\* of it undefined behaviour, which yields some string or ends the program.
at_outcomes(loader, row, col) ==
    IF at_row_throws(loader, row) \/ at_col_throws(loader, col)
    THEN {[err |-> "RangeError", val |-> <<>>]}
    ELSE IF row < Len(loader.m_data) /\ col < Len(loader.m_header)
         THEN {[err |-> "none", val |-> loader.m_data[row + 1][col + 1]]}
         ELSE {[err |-> "crash", val |-> <<>>],
               [err |-> "none", val |-> <<>>],
               [err |-> "none", val |-> <<"x">>]}

(***************************************************************************)
(* dataframe<loader_t, C>: a view is [m_loader, m_row_mask, m_col_mask, C] *)
(* with m_loader the index of the shared loader and C = -1 unconstrained.  *)
(***************************************************************************)
RECURSIVE count(_)
count(mask) == IF mask = <<>> THEN 0 ELSE (IF Head(mask) THEN 1 ELSE 0) + count(Tail(mask))

rows(df) == count(df.m_row_mask)

cols(df) == count(df.m_col_mask)

NoView == [m_loader |-> 0, m_row_mask |-> <<>>, m_col_mask |-> <<>>, C |-> -1]

\* dataframe without the column count test.
dataframe_unchecked(loader, row_mask, col_mask, C) ==
    [err |-> "none",
     df |-> [m_loader |-> loader, m_row_mask |-> row_mask, m_col_mask |-> col_mask, C |-> C]]

\* Both constructors: if constexpr (C != -1) if (cols() != C) throw.
dataframe(loader, row_mask, col_mask, C) ==
    LET df == [m_loader |-> loader, m_row_mask |-> row_mask, m_col_mask |-> col_mask, C |-> C]
    IN IF C # -1 /\ cols(df) # C
       THEN [err |-> "ContractError", df |-> NoView]
       ELSE [err |-> "none", df |-> df]

Failed(e) == [err |-> e, df |-> NoView]

(***************************************************************************)
(* masked_iterator / masked_iterable. iter and mask_it advance together,   *)
(* so one position stands for both; Len(c) + 1 is c.end().                 *)
(***************************************************************************)
\* masked_iterable: while (mask_it != mask.end() && !*mask_it) { ++base_it; ++mask_it; }
RECURSIVE masked_begin(_, _)
masked_begin(mask, i) ==
    IF i # Len(mask) + 1 /\ ~mask[i] THEN masked_begin(mask, i + 1) ELSE i

\* operator++ with no look at the mask.
masked_increment_plain(mask, i, end_iter) == i + 1

\* operator++: do { ++mask_it; ++iter; } while (iter != end_iter && !*mask_it);
RECURSIVE masked_increment(_, _, _)
masked_increment(mask, i, end_iter) ==
    LET j == i + 1
    IN IF j # end_iter /\ ~mask[j] THEN masked_increment(mask, j, end_iter) ELSE j

\* for (x : masked_iterable(c, mask)): the positions dereferenced, in order.
RECURSIVE masked_walk(_, _, _)
masked_walk(mask, i, end_iter) ==
    IF i = end_iter THEN <<>>
    ELSE <<i>> \o masked_walk(mask, masked_increment(mask, i, end_iter), end_iter)

masked_positions(c, mask) == masked_walk(mask, masked_begin(mask, 1), Len(c) + 1)

masked_iterable(c, mask) ==
    LET pos == masked_positions(c, mask) IN [k \in DOMAIN pos |-> c[pos[k]]]

row_iterable(df) == masked_iterable(loaders[df.m_loader].m_data, df.m_row_mask)

col_iterable(df, row) == masked_iterable(row, df.m_col_mask)

(***************************************************************************)
(* convert<T>(str) for T = int.                                            *)
(***************************************************************************)
RECURSIVE ParseDigits(_, _)
ParseDigits(s, acc) ==
    IF s # <<>> /\ isdigit(Head(s))
    THEN ParseDigits(Tail(s), 10 * acc + (CharCode[Head(s)] - 48))
    ELSE acc

\* sstr >> val: skip whitespace, an optional sign, then digits; without a digit
\* the extraction fails and val is 0. The cells here are too short to overflow.
StreamExtract(str) ==
    LET s == SkipWs(str)
        neg == s # <<>> /\ Head(s) = "-"
        body == IF neg THEN Tail(s) ELSE s
    IN IF body = <<>> \/ ~isdigit(Head(body)) THEN 0
       ELSE IF neg THEN 0 - ParseDigits(body, 0) ELSE ParseDigits(body, 0)

\* is_arithmetic is std::is_arithmetic_v<T>: FALSE for T = const int& (the comparison).
convert(is_arithmetic, str) ==
    IF is_arithmetic /\ str = <<>> THEN 0 ELSE StreamExtract(str)

\* convert<T>(const std::vector<std::string>&): every element of the vector.
convert_vector(str_vec) == [k \in DOMAIN str_vec |-> convert(TRUE, str_vec[k])]

\* row_as_str_array<N>: the active cells of the row, written from slot 0 on.
row_as_str_array(N, df, row) ==
    LET cells == col_iterable(df, row)
    IN [k \in 1..N |-> IF k <= Len(cells) THEN cells[k] ELSE <<>>]

(***************************************************************************)
(* Row filters: operator==, <, <=, >, >= through row_wise_comparison.      *)
(***************************************************************************)
Predicates == {"equal_to", "less", "less_equal", "greater", "greater_equal"}

pred_apply(pred, x, y) ==
    CASE pred = "equal_to" -> x = y
      [] pred = "less" -> x < y
      [] pred = "less_equal" -> x <= y
      [] pred = "greater" -> x > y
      [] pred = "greater_equal" -> x >= y

\* compare_fold with || in the place of &&.
RECURSIVE compare_fold_any(_, _, _, _)
compare_fold_any(pred, tuple, array, idx) ==
    IF idx > Len(tuple) THEN FALSE
    ELSE \/ pred_apply(pred, convert(FALSE, array[idx]), tuple[idx])
         \/ compare_fold_any(pred, tuple, array, idx + 1)

\* The fold (pred(convert(array[idx]), tuple[idx]) && ...), left to right from idx.
RECURSIVE compare_fold(_, _, _, _)
compare_fold(pred, tuple, array, idx) ==
    IF idx > Len(tuple) THEN TRUE
    ELSE /\ pred_apply(pred, convert(FALSE, array[idx]), tuple[idx])
         /\ compare_fold(pred, tuple, array, idx + 1)

compare_tuple_and_string_array(pred, tuple, array) == compare_fold(pred, tuple, array, 1)

\* The loop of row_wise_comparison over i, on the copy new_row_mask of m_row_mask.
RECURSIVE comparison_loop(_, _, _, _, _)
comparison_loop(df, pred, tuple, new_row_mask, i) ==
    IF i > Len(new_row_mask) THEN new_row_mask
    ELSE IF new_row_mask[i] = TRUE
              /\ ~compare_tuple_and_string_array(pred, tuple,
                     row_as_str_array(Len(tuple), df, loaders[df.m_loader].m_data[i]))
         THEN comparison_loop(df, pred, tuple, [new_row_mask EXCEPT ![i] = FALSE], i + 1)
         ELSE comparison_loop(df, pred, tuple, new_row_mask, i + 1)

\* static_assert(C == -1 || C == OC): TRUE when the call is accepted.
static_assert_cols(C, OC) == C = -1 \/ C = OC

\* row_wise_comparison with new_row_mask started all true.
row_wise_comparison_fresh(df, pred, tuple) ==
    LET N == Len(tuple)
    IN IF ~static_assert_cols(df.C, N) THEN Failed("ContractError")
       ELSE IF count(df.m_col_mask) # N THEN Failed("ContractError")
       ELSE dataframe(df.m_loader,
                      comparison_loop(df, pred, tuple, [i \in DOMAIN df.m_row_mask |-> TRUE], 1),
                      df.m_col_mask, N)

row_wise_comparison(df, pred, tuple) ==
    LET N == Len(tuple)
    IN IF ~static_assert_cols(df.C, N) THEN Failed("ContractError")
       ELSE IF count(df.m_col_mask) # N THEN Failed("ContractError")
       ELSE dataframe(df.m_loader, comparison_loop(df, pred, tuple, df.m_row_mask, 1),
                      df.m_col_mask, N)

\* !df: dataframe declares no operator!, and no conversion of a dataframe to
\* a type that has one, so the expression is ill-formed whatever df holds: a
\* program that makes the call does not build and the call yields no dataframe.
operator_not(r) == Failed("IllFormed")

\* operator!=: return !( *this == tuple );
operator_not_equal(this, tuple) == operator_not(row_wise_comparison(this, "equal_to", tuple))

(***************************************************************************)
(* operator&&, operator||, operator(), select_rows, select_cols.           *)
(***************************************************************************)
\* and_row_mask with || in the place of &&.
and_row_mask_union(this, df) ==
    [i \in 1..Len(this.m_row_mask) |-> this.m_row_mask[i] \/ df.m_row_mask[i]]

\* The loop of operator&&.
and_row_mask(this, df) ==
    [i \in 1..Len(this.m_row_mask) |-> this.m_row_mask[i] /\ df.m_row_mask[i]]

\* The loop of operator||.
or_row_mask(this, df) ==
    [i \in 1..Len(this.m_row_mask) |-> this.m_row_mask[i] \/ df.m_row_mask[i]]

operator_and(this, df) ==
    IF ~static_assert_cols(this.C, df.C) THEN Failed("ContractError")
    ELSE IF df.m_loader # this.m_loader THEN Failed("CrossStorageError")
    ELSE dataframe(this.m_loader, and_row_mask(this, df), this.m_col_mask, this.C)

operator_or(this, df) ==
    IF ~static_assert_cols(this.C, df.C) THEN Failed("ContractError")
    ELSE IF df.m_loader # this.m_loader THEN Failed("CrossStorageError")
    ELSE dataframe(this.m_loader, or_row_mask(this, df), this.m_col_mask, this.C)

\* The loop of operator(): new_col_mask[header_map().at(col)] = true for each name.
RECURSIVE project_loop(_, _, _, _)
project_loop(map, names, new_col_mask, k) ==
    IF k > Len(names) THEN [err |-> "none", mask |-> new_col_mask]
    ELSE IF names[k] \notin DOMAIN map THEN [err |-> "KeyError", mask |-> new_col_mask]
    ELSE project_loop(map, names, [new_col_mask EXCEPT ![map[names[k]]] = TRUE], k + 1)

\* operator() with new_col_mask started from m_col_mask.
operator_call_additive(this, names) ==
    LET done == project_loop(loaders[this.m_loader].m_header_map, names, this.m_col_mask, 1)
    IN IF done.err # "none" THEN Failed(done.err)
       ELSE dataframe(this.m_loader, this.m_row_mask, done.mask, Len(names))

\* operator(): new_col_mask(m_col_mask.size(), false), the loop, and the
\* constructor of dataframe<loader_t, N>.
operator_call(this, names) ==
    LET done == project_loop(loaders[this.m_loader].m_header_map, names,
                             [i \in 1..Len(this.m_col_mask) |-> FALSE], 1)
    IN IF done.err # "none" THEN Failed(done.err)
       ELSE dataframe(this.m_loader, this.m_row_mask, done.mask, Len(names))

\* select_rows with the test df.m_loader != m_loader left out.
select_rows_unchecked(this, df) ==
    IF ~static_assert_cols(this.C, df.C) THEN Failed("ContractError")
    ELSE dataframe(this.m_loader, df.m_row_mask, this.m_col_mask, this.C)

select_rows(this, df) ==
    IF ~static_assert_cols(this.C, df.C) THEN Failed("ContractError")
    ELSE IF df.m_loader # this.m_loader THEN Failed("CrossStorageError")
    ELSE dataframe(this.m_loader, df.m_row_mask, this.m_col_mask, this.C)

select_cols(this, df) ==
    IF df.m_loader # this.m_loader THEN Failed("CrossStorageError")
    ELSE dataframe(this.m_loader, this.m_row_mask, df.m_col_mask, this.C)

(***************************************************************************)
(* Extraction and printing.                                                *)
(***************************************************************************)
\* rows_to_vectors<T>: convert<T>(row) of every row of row_iterable().
rows_to_vectors(df) ==
    LET active == row_iterable(df) IN [k \in DOMAIN active |-> convert_vector(active[k])]

\* cols_to_vectors with the test N != cols() left out.
cols_to_vectors_unchecked(N, df) ==
    LET active == row_iterable(df)
    IN IF ~static_assert_cols(df.C, N) THEN [err |-> "ContractError", out |-> <<>>]
       ELSE [err |-> "none",
             out |-> [n \in 1..N |->
                        [k \in DOMAIN active |->
                            convert(TRUE, row_as_str_array(N, df, active[k])[n])]]]

\* cols_to_vectors<Ts...> for N types int: the static_assert on the contract,
\* the test N != cols(), then for every row of row_iterable() the cells of
\* row_as_str_array<N>(row), each converted and pushed to its own vector.
cols_to_vectors(N, df) ==
    LET active == row_iterable(df)
    IN IF ~static_assert_cols(df.C, N) THEN [err |-> "ContractError", out |-> <<>>]
       ELSE IF N # cols(df) THEN [err |-> "ContractError", out |-> <<>>]
       ELSE [err |-> "none",
             out |-> [n \in 1..N |->
                        [k \in DOMAIN active |->
                            convert(TRUE, row_as_str_array(N, df, active[k])[n])]]]

\* operator<<: the header line, then one line per active row; a line is its
\* cells, each followed by a tab, and a newline.
print(df) ==
    LET active == row_iterable(df)
    IN <<col_iterable(df, loaders[df.m_loader].m_header)>>
       \o [k \in DOMAIN active |-> col_iterable(df, active[k])]

(***************************************************************************)
(* Inputs.                                                                 *)
(***************************************************************************)
SeqsUpTo(S, n) == UNION {[1..k -> S] : k \in 0..n}

\* The csv files of the view engine's runs: a short row, a long row, untrimmed
\* pieces, cells that are no numbers.
Files ==
    { << << <<"a">>, <<"b">> >>,
         << <<"1">>, <<"2">> >>,
         << <<"2">>, <<"1">> >>,
         << <<"1", "2">> >> >>,
      << << <<" ", "b">>, <<"a", " ">> >>,
         << <<"x">>, <<"2">>, <<"1">> >>,
         << <<"-", "1">>, <<"1", "x">> >> >> }

\* The csv files of the loader's runs: every header of up to MaxHeaderLen names.
HeaderFiles ==
    { << h, << <<"1">>, <<"2">> >> >> : h \in SeqsUpTo({<<"a">>, <<"b">>, <<"c">>}, MaxHeaderLen) }

\* The csv files of the traversal's runs: rows that comparisons tell apart in
\* several ways, a value that comes back after another one, and a file with a
\* header and no row.
RowFiles ==
    { << << <<"a">>, <<"b">> >>,
         << <<"1">>, <<"2">> >>,
         << <<"2">>, <<"1">> >>,
         << <<"1", "2">> >> >>,
      << << <<"a">> >>,
         << <<"1">> >>,
         << <<"2">> >>,
         << <<"1">> >> >>,
      << << <<"a">>, <<"b">> >> >> }

Contracts == {-1} \cup 1..MaxArity

NamePool == {<<"a">>, <<"b">>, <<"z">>}

NameLists == SeqsUpTo(NamePool, MaxArity)

Tuples == SeqsUpTo(0..MaxTarget, MaxArity)

(***************************************************************************)
(* The state machine. A run is a caller's sequence of calls. views is the  *)
(* set of dataframes the caller holds (dataframes are values), loaders the *)
(* storages they share, by position. last is the report of the latest      *)
(* call: its operand dataframes a and b, its argument, what it threw, the  *)
(* dataframe it returned, the values it extracted, and whether the caller  *)
(* kept the returned dataframe. The calls are functions of their operands, *)
(* so a run keeps what its calls return while it holds fewer than MaxViews *)
(* dataframes and ends with the first call that leaves it nothing to keep  *)
(* (it threw, it extracted values, or there is no room): every call on     *)
(* every set of dataframes the caller can hold is made in some run.        *)
(***************************************************************************)
Report(op, a, b, arg, r, out, kept) ==
    [op |-> op, a |-> a, b |-> b, arg |-> arg, err |-> r.err, df |-> r.df, out |-> out,
     kept |-> kept]

Init ==
    /\ loaders = <<>>
    /\ views = {}
    /\ last = Report("init", NoView, NoView, <<>>, Failed("none"), <<>>, TRUE)

\* The caller keeps what a call returned when the call did not throw and there
\* is room for it.
Keeps(r) == r.err = "none" /\ Cardinality(views) < MaxViews

\* Returns with the result written over the operand a.
Returns_in_place(op, a, b, arg, r) ==
    /\ views' = IF Keeps(r) THEN (views \ {a}) \cup {r.df} ELSE views
    /\ last' = Report(op, a, b, arg, r, <<>>, Keeps(r))

\* A call that returns a dataframe, or throws; no dataframe the caller holds changes.
Returns(op, a, b, arg, r) ==
    /\ views' = IF Keeps(r) THEN views \cup {r.df} ELSE views
    /\ last' = Report(op, a, b, arg, r, <<>>, Keeps(r))

\* A call that returns extracted values, or throws.
Extracts(op, a, arg, err, out) ==
    /\ last' = Report(op, a, NoView, arg, Failed(err), out, FALSE)
    /\ UNCHANGED <<loaders, views>>

\* dataframe<loader_t, C>(path): make_shared<loader_t>(path), full masks, contract test.
Load(pool) ==
    /\ last.kept
    /\ Len(loaders) < MaxLoaders
    /\ \E file \in pool, C \in Contracts, exists \in BOOLEAN, movedFromEmpty \in BOOLEAN :
        IF ~exists
        THEN /\ Returns("load", NoView, NoView, <<file, C>>, Failed("IOError"))
             /\ UNCHANGED loaders
        ELSE IF throw_if_duplicates(extract_line(file[1], -1), movedFromEmpty)
        THEN /\ Returns("load", NoView, NoView, <<file, C>>, Failed("FormatError"))
             /\ UNCHANGED loaders
        ELSE LET m_loader == default_loader(file)
                 r == dataframe(Len(loaders) + 1,
                                [i \in 1..Len(m_loader.m_data) |-> TRUE],
                                [i \in 1..Len(m_loader.m_header) |-> TRUE], C)
             IN /\ Returns("load", NoView, NoView, <<file, C>>, r)
                /\ loaders' = IF Keeps(r) THEN Append(loaders, m_loader) ELSE loaders

LoadFile == Load(Files)

\* The loader's runs construct one loader and query it.
LoadHeaderFile == loaders = <<>> /\ Load(HeaderFiles)

At ==
    /\ last.kept
    /\ \E l \in DOMAIN loaders, row \in 0..MaxIndex, col \in 0..MaxIndex :
        \E o \in at_outcomes(loaders[l], row, col) :
            /\ last' = Report("at", NoView, NoView, <<l, row, col>>, Failed(o.err), o.val, FALSE)
            /\ UNCHANGED <<loaders, views>>

Project ==
    /\ last.kept
    /\ \E a \in views, names \in NameLists :
        Returns("project", a, NoView, names, operator_call(a, names))
    /\ UNCHANGED loaders

Compare ==
    /\ last.kept
    /\ \E a \in views, pred \in Predicates, tuple \in Tuples :
        Returns("compare", a, NoView, <<pred, tuple>>, row_wise_comparison(a, pred, tuple))
    /\ UNCHANGED loaders

CompareNotEqual ==
    /\ last.kept
    /\ \E a \in views, tuple \in Tuples :
        Returns("not_equal", a, NoView, tuple, operator_not_equal(a, tuple))
    /\ UNCHANGED loaders

And ==
    /\ last.kept
    /\ \E a \in views, b \in views :
        Returns("and", a, b, <<>>, operator_and(a, b))
    /\ UNCHANGED loaders

Or ==
    /\ last.kept
    /\ \E a \in views, b \in views :
        Returns("or", a, b, <<>>, operator_or(a, b))
    /\ UNCHANGED loaders

SelectRows ==
    /\ last.kept
    /\ \E a \in views, b \in views :
        Returns("select_rows", a, b, <<>>, select_rows(a, b))
    /\ UNCHANGED loaders

SelectCols ==
    /\ last.kept
    /\ \E a \in views, b \in views :
        Returns("select_cols", a, b, <<>>, select_cols(a, b))
    /\ UNCHANGED loaders

RowsToVectors ==
    /\ last.kept
    /\ \E a \in views : Extracts("rows_to_vectors", a, <<>>, "none", rows_to_vectors(a))

ColsToVectors ==
    /\ last.kept
    /\ \E a \in views, N \in 0..MaxArity :
        LET r == cols_to_vectors(N, a)
        IN Extracts("cols_to_vectors", a, <<N>>, r.err, r.out)

PrintView ==
    /\ last.kept
    /\ \E a \in views : Extracts("print", a, <<>>, "none", print(a))

LoadRowFile == Load(RowFiles)

\* The position of a range-based for loop over row_iterable(): iter (with
\* mask_it beside it), the positions the loop body has dereferenced in this
\* traversal, which traversal of the view it is, and what the first one visited.
Traversal(a, iter, visited, pass, first) ==
    [op |-> "traverse", a |-> a, b |-> NoView, arg |-> <<>>, err |-> "none", df |-> NoView,
     out |-> [iter |-> iter, visited |-> visited, pass |-> pass, first |-> first],
     kept |-> FALSE]

\* for (const auto &row : a.row_iterable()): masked_iterable tests the sizes
\* and moves begin_it to the first set mask bit.
RowsBegin ==
    /\ last.kept
    /\ \E a \in views :
        IF Len(loaders[a.m_loader].m_data) # Len(a.m_row_mask)
        THEN last' = Report("traverse", a, NoView, <<>>, Failed("SizeError"), <<>>, FALSE)
        ELSE last' = Traversal(a, masked_begin(a.m_row_mask, 1), <<>>, 1, <<>>)
    /\ UNCHANGED <<loaders, views>>

\* One round of the loop: iter != end_it.iter, the body reads *iter, ++iter.
RowsStep ==
    /\ last.op = "traverse"
    /\ last.err = "none"
    /\ LET t == last.out
           end_iter == Len(loaders[last.a.m_loader].m_data) + 1
       IN /\ t.iter # end_iter
          /\ last' = Traversal(last.a, masked_increment(last.a.m_row_mask, t.iter, end_iter),
                               Append(t.visited, t.iter), t.pass, t.first)
    /\ UNCHANGED <<loaders, views>>

\* The loop has ended and the caller starts a second loop over row_iterable().
RowsAgain ==
    /\ last.op = "traverse"
    /\ last.err = "none"
    /\ last.out.pass = 1
    /\ last.out.iter = Len(loaders[last.a.m_loader].m_data) + 1
    /\ last' = Traversal(last.a, masked_begin(last.a.m_row_mask, 1), <<>>, 2, last.out.visited)
    /\ UNCHANGED <<loaders, views>>

\* The caller has filtered V with p1(targets1) and kept the result R1. It
\* filters R1 with p2(targets2), and builds from the same two filters
\* R1 && (V p2 targets2) and (V p2 targets2) p1 targets1; a throw of the
\* inner call passes through the outer one.
FilterAgain ==
    /\ last.kept
    /\ last.op = "compare"
    /\ \E pred \in Predicates, tuple \in Tuples :
        LET V == last.a
            R1 == last.df
            second == row_wise_comparison(V, pred, tuple)
        IN last' = [op |-> "filter_again", a |-> V, b |-> R1,
                    arg |-> <<last.arg[1], last.arg[2], pred, tuple>>,
                    err |-> "none", df |-> NoView,
                    out |-> [chained |-> row_wise_comparison(R1, pred, tuple),
                             second |-> second,
                             combined |-> IF second.err # "none" THEN second
                                          ELSE operator_and(R1, second.df),
                             reversed |-> IF second.err # "none" THEN second
                                          ELSE row_wise_comparison(second.df, last.arg[1],
                                                                   last.arg[2])],
                    kept |-> FALSE]
    /\ UNCHANGED <<loaders, views>>

Next ==
    \/ LoadFile
    \/ Project
    \/ Compare
    \/ CompareNotEqual
    \/ And
    \/ Or
    \/ SelectRows
    \/ SelectCols
    \/ RowsToVectors
    \/ ColsToVectors
    \/ PrintView

Spec == Init /\ [][Next]_vars

\* The traversal's runs: views with the row masks that comparisons leave, and
\* loops over their rows. A loop that has begun goes on until iter is
\* end_it.iter.
NextRows ==
    \/ LoadRowFile
    \/ Compare
    \/ RowsBegin
    \/ RowsStep
    \/ RowsAgain

SpecRows == Init /\ [][NextRows]_vars /\ WF_vars(RowsStep)

\* Filters stay within one storage: the runs that filter twice load one file.
LoadOneFile == loaders = <<>> /\ Load(Files)

\* The runs that filter twice: views of some columns and rows, a filter, and
\* a second filter on its result.
NextFilter ==
    \/ LoadOneFile
    \/ Project
    \/ Compare
    \/ FilterAgain

SpecFilter == Init /\ [][NextFilter]_vars

NextLoader ==
    \/ LoadHeaderFile
    \/ At

SpecLoader == Init /\ [][NextLoader]_vars

(***************************************************************************)
(* Vocabulary of the properties.                                           *)
(***************************************************************************)
ActiveRows(df) == {i \in DOMAIN df.m_row_mask : df.m_row_mask[i]}

ActiveCols(df) == {c \in DOMAIN df.m_col_mask : df.m_col_mask[c]}

\* The position of the active column c among the active columns, in header order.
ColumnRank(df, c) == Cardinality({d \in ActiveCols(df) : d <= c})

\* The k-th smallest element of a set of positions.
Nth(S, k) == CHOOSE x \in S : Cardinality({y \in S : y <= x}) = k

HasDuplicates(s) == \E i, j \in DOMAIN s : i # j /\ s[i] = s[j]

ReturnsView == {"load", "project", "compare", "and", "or", "select_rows", "select_cols"}

(***************************************************************************)
(* Properties of default_loader.                                           *)
(***************************************************************************)
\* C9: parse fails with FormatError whenever two header tokens are equal,
\* wherever the repeated name sits, and passes this check when all differ.
C9_DuplicateHeaderRejected ==
    (last.op = "load" /\ last.err # "IOError") =>
        ((last.err = "FormatError") <=> HasDuplicates(extract_line(last.arg[1][1], -1)))

\* C10: at(row, col) returns the stored cell when row and col are inside the
\* table and fails with RangeError for every other pair, row = number of rows
\* and col = number of columns included.
C10_AtBoundsChecked ==
    last.op = "at" =>
        LET loader == loaders[last.arg[1]]
            row == last.arg[2]
            col == last.arg[3]
        IN IF row < Len(loader.m_data) /\ col < Len(loader.m_header)
           THEN last.err = "none" /\ last.out = loader.m_data[row + 1][col + 1]
           ELSE last.err = "RangeError"

(***************************************************************************)
(* Properties of the dataframe views.                                      *)
(***************************************************************************)
Cell(df, i, c) == loaders[df.m_loader].m_data[i][c]

\* Every pairwise comparison of row i is true: the cell of each active column
\* against the target at the column's position among the active columns.
RowSatisfies(df, pred, tuple, i) ==
    \A c \in ActiveCols(df) :
        pred_apply(pred, convert(FALSE, Cell(df, i, c)), tuple[ColumnRank(df, c)])

\* C1: on a view whose active column count equals the arity of the targets,
\* compare(predicate, targets) returns a view on the same storage with the same
\* column mask, in which row i is active exactly when it is active in the input
\* and every pairwise comparison of the row is true.
C1_CompareKeepsConjunction ==
    (last.op = "compare" /\ Cardinality(ActiveCols(last.a)) = Len(last.arg[2])) =>
        /\ last.err = "none"
        /\ last.df.m_loader = last.a.m_loader
        /\ last.df.m_col_mask = last.a.m_col_mask
        /\ DOMAIN last.df.m_row_mask = DOMAIN last.a.m_row_mask
        /\ \A i \in DOMAIN last.a.m_row_mask :
              last.df.m_row_mask[i]
                  <=> (last.a.m_row_mask[i] /\ RowSatisfies(last.a, last.arg[1], last.arg[2], i))

\* A comparison on two active columns of a view with an inactive row, which
\* keeps one row and drops a row that passes on one column and fails on the other.
C1_Witness ==
    /\ last.op = "compare"
    /\ last.err = "none"
    /\ Cardinality(ActiveCols(last.a)) = 2
    /\ \E i \in DOMAIN last.a.m_row_mask : ~last.a.m_row_mask[i] /\ ~last.df.m_row_mask[i]
    /\ \E i \in ActiveRows(last.a) : last.df.m_row_mask[i]
    /\ \E i \in ActiveRows(last.a) :
          /\ ~last.df.m_row_mask[i]
          /\ \E c, d \in ActiveCols(last.a) :
                /\ pred_apply(last.arg[1], convert(FALSE, Cell(last.a, i, c)),
                              last.arg[2][ColumnRank(last.a, c)])
                /\ ~pred_apply(last.arg[1], convert(FALSE, Cell(last.a, i, d)),
                               last.arg[2][ColumnRank(last.a, d)])

\* C2: project(names...) presents its columns in the order the names were
\* given: traversing the active cells of any row yields, at position k, the
\* cell of the k-th requested name.
C2_ProjectFollowsNameOrder ==
    (last.op = "project" /\ last.err = "none" /\ ~HasDuplicates(last.arg)) =>
        LET loader == loaders[last.a.m_loader]
        IN \A i \in DOMAIN loader.m_data :
              col_iterable(last.df, loader.m_data[i])
                  = [k \in 1..Len(last.arg) |-> loader.m_data[i][loader.m_header_map[last.arg[k]]]]

\* C3: and(A, B) has the intersection of the active rows of A and B, or(A, B)
\* their union; the result has A's column mask, whatever B's column mask is.
C3_CombineRowMasks ==
    (last.op \in {"and", "or"} /\ last.err = "none") =>
        /\ last.df.m_loader = last.a.m_loader
        /\ DOMAIN last.df.m_row_mask = DOMAIN last.a.m_row_mask
        /\ ActiveRows(last.df) = IF last.op = "and"
                                 THEN ActiveRows(last.a) \cap ActiveRows(last.b)
                                 ELSE ActiveRows(last.a) \cup ActiveRows(last.b)
        /\ last.df.m_col_mask = last.a.m_col_mask

\* An and of two views with different column masks, B's rows a proper,
\* non-empty part of A's.
C3_Witness ==
    /\ last.op = "and"
    /\ last.err = "none"
    /\ last.a.m_col_mask # last.b.m_col_mask
    /\ ActiveRows(last.b) # {}
    /\ ActiveRows(last.b) # ActiveRows(last.a)
    /\ ActiveRows(last.b) \subseteq ActiveRows(last.a)

\* C4: to_rows (rows_to_vectors) returns rows() rows, in storage order of the
\* active rows, each of length cols() and holding the converted values of the
\* active cells of its source row only.
C4_RowsToVectorsActiveCells ==
    last.op = "rows_to_vectors" =>
        /\ Len(last.out) = Cardinality(ActiveRows(last.a))
        /\ \A k \in DOMAIN last.out :
              /\ Len(last.out[k]) = Cardinality(ActiveCols(last.a))
              /\ \A n \in DOMAIN last.out[k] :
                    last.out[k][n] = convert(TRUE, Cell(last.a, Nth(ActiveRows(last.a), k),
                                                        Nth(ActiveCols(last.a), n)))

\* C5, for two views on the same storage: this.select_rows(other) succeeds
\* whatever other's column mask and contract are, and returns other's row mask
\* with this's column mask and contract.
C5_SelectRowsAnyContract ==
    (last.op = "select_rows" /\ last.a.m_loader = last.b.m_loader) =>
        /\ last.err = "none"
        /\ last.df.m_row_mask = last.b.m_row_mask
        /\ last.df.m_col_mask = last.a.m_col_mask
        /\ last.df.C = last.a.C

\* C6, for two views on the same storage: and/or fail with ContractError
\* exactly when both contracts are fixed and differ, and succeed in every other
\* case, also when exactly one of the two is unconstrained, on either side.
C6_CombineErrors ==
    (last.op \in {"and", "or"} /\ last.a.m_loader = last.b.m_loader) =>
        /\ (last.err = "ContractError")
              <=> (last.a.C # -1 /\ last.b.C # -1 /\ last.a.C # last.b.C)
        /\ last.err \in {"none", "ContractError"}

ContractKept(df) == df.C # -1 => Cardinality(ActiveCols(df)) = df.C

\* The columns a projection by these names sets.
NamedCols(loader, names) == {loader.m_header_map[names[k]] : k \in DOMAIN names}

\* C7: every view with a fixed contract C has exactly C active columns, and a
\* construction that would give another count (a load with the wrong C,
\* select_cols with a mask of another count, project with a repeated name)
\* fails with ContractError and returns no view.
C7_ContractHolds ==
    /\ \A df \in views : ContractKept(df)
    /\ (last.op \in ReturnsView /\ last.err = "none") => ContractKept(last.df)
    /\ (last.op \in ReturnsView /\ last.err # "none") => last.df = NoView
    /\ (/\ last.op = "select_cols"
        /\ last.a.m_loader = last.b.m_loader
        /\ last.a.C # -1
        /\ Cardinality(ActiveCols(last.b)) # last.a.C) => last.err = "ContractError"
    /\ (/\ last.op = "project"
        /\ \A k \in DOMAIN last.arg : last.arg[k] \in DOMAIN loaders[last.a.m_loader].m_header_map
        /\ Cardinality(NamedCols(loaders[last.a.m_loader], last.arg)) # Len(last.arg))
            => last.err = "ContractError"
    /\ (/\ last.op = "load"
        /\ last.err \notin {"IOError", "FormatError"}
        /\ last.arg[2] # -1
        /\ Len(extract_line(last.arg[1][1], -1)) # last.arg[2]) => last.err = "ContractError"

\* A select_cols on a view with a fixed contract, refused for a column mask of
\* another count, while the caller holds views with fixed contracts.
C7_Witness ==
    /\ last.op = "select_cols"
    /\ last.err = "ContractError"
    /\ last.a.m_loader = last.b.m_loader
    /\ last.a.C = 2
    /\ Cardinality(ActiveCols(last.b)) = 1
    /\ \E df \in views : df.C = 1

\* C8: no call, whether it returns or throws, changes a view the caller holds
\* or a storage: every view and every storage of before the call is there
\* unchanged after it.
C8_ViewsNeverMutated ==
    [][/\ views \subseteq views'
       /\ \A l \in DOMAIN loaders : l \in DOMAIN loaders' /\ loaders'[l] = loaders[l]]_vars

\* A refused combination of two held views of different storages, with both
\* still held and a third one derived from one of them.
C8_Witness ==
    /\ last.op = "or"
    /\ last.err = "CrossStorageError"
    /\ last.a \in views
    /\ last.b \in views
    /\ Cardinality(views) = 3
    /\ \E df \in views : ActiveRows(df) # DOMAIN df.m_row_mask

\* C11: to_columns (cols_to_vectors) with n types fails when n is not cols();
\* when n is cols() it returns n sequences of length rows(), and the i-th
\* elements of the sequences are the converted active cells of the i-th active
\* row of the view, in storage order.
C11_ColsToVectorsAligned ==
    last.op = "cols_to_vectors" =>
        LET N == last.arg[1]
        IN IF N # Cardinality(ActiveCols(last.a))
           THEN last.err # "none" /\ last.out = <<>>
           ELSE /\ last.err = "none"
                /\ Len(last.out) = N
                /\ \A n \in 1..N :
                      /\ Len(last.out[n]) = Cardinality(ActiveRows(last.a))
                      /\ \A i \in DOMAIN last.out[n] :
                            last.out[n][i]
                                = convert(TRUE, Cell(last.a, Nth(ActiveRows(last.a), i),
                                                     Nth(ActiveCols(last.a), n)))

\* An extraction of the one active column of a view with a masked-out column
\* and an inactive row before two active rows, with different values in them.
C11_Witness ==
    /\ last.op = "cols_to_vectors"
    /\ last.err = "none"
    /\ last.arg[1] = 1
    /\ ActiveCols(last.a) # DOMAIN last.a.m_col_mask
    /\ \E i, j, k \in DOMAIN last.a.m_row_mask :
          /\ i < j /\ j < k
          /\ ~last.a.m_row_mask[i] /\ last.a.m_row_mask[j] /\ last.a.m_row_mask[k]
    /\ Len(last.out[1]) = 2
    /\ last.out[1][1] # last.out[1][2]

\* C12: not-equal is a supported predicate and the complement of equal within
\* the view: on a view whose active column count equals the arity of the
\* targets, compare(not-equal, targets) returns a view on the same storage
\* whose active rows are exactly the active rows of the input that
\* compare(equal, targets) does not keep.
C12_NotEqualComplementsEqual ==
    (last.op = "not_equal" /\ Cardinality(ActiveCols(last.a)) = Len(last.arg)) =>
        /\ last.err = "none"
        /\ last.df.m_loader = last.a.m_loader
        /\ ActiveRows(last.df)
              = ActiveRows(last.a) \ ActiveRows(row_wise_comparison(last.a, "equal_to", last.arg).df)

\* The columns whose header entry is one of the names.
ColsNamed(header, names) ==
    {c \in DOMAIN header : \E k \in DOMAIN names : header[c] = names[k]}

\* C13: project(names...) with a name that is no header entry fails with
\* KeyError; with distinct names that are all header entries it returns a view
\* on the same storage whose column mask has exactly the named columns set,
\* whatever columns the input had active, whose row mask is the input's, and
\* whose cols() and contract are the number of names; the same projection of
\* the result returns the result again.
C13_ProjectSetsNamedColumns ==
    last.op = "project" =>
        LET header == loaders[last.a.m_loader].m_header
            names == last.arg
        IN IF \E k \in DOMAIN names : \A c \in DOMAIN header : header[c] # names[k]
           THEN last.err = "KeyError"
           ELSE ~HasDuplicates(names) =>
                /\ last.err = "none"
                /\ last.df.m_loader = last.a.m_loader
                /\ DOMAIN last.df.m_col_mask = DOMAIN header
                /\ ActiveCols(last.df) = ColsNamed(header, names)
                /\ last.df.m_row_mask = last.a.m_row_mask
                /\ cols(last.df) = Len(names)
                /\ last.df.C = Len(names)
                /\ operator_call(last.df, names) = [err |-> "none", df |-> last.df]

\* A projection to one column of a view that has only the other column active
\* and an inactive row.
C13_Witness ==
    /\ last.op = "project"
    /\ last.err = "none"
    /\ Len(last.arg) = 1
    /\ Cardinality(ActiveCols(last.a)) = 1
    /\ ActiveCols(last.a) \cap ActiveCols(last.df) = {}
    /\ ActiveRows(last.a) # DOMAIN last.a.m_row_mask
    /\ ActiveRows(last.a) # {}

\* What holds at every position of a traversal of rows_of(view): the positions
\* dereferenced so far are active rows in strictly increasing order, the
\* position to be dereferenced next is an active row, the traversal is at its
\* end exactly when it has made rows() steps, it has then visited exactly the
\* active rows, and a second traversal repeats the first.
TraversalSafe ==
    (last.op = "traverse") =>
        LET t == last.out
            mask == last.a.m_row_mask
            end_iter == Len(loaders[last.a.m_loader].m_data) + 1
        IN /\ last.err = "none"
           /\ \A k \in DOMAIN t.visited : t.visited[k] \in DOMAIN mask /\ mask[t.visited[k]]
           /\ \A k, l \in DOMAIN t.visited : k < l => t.visited[k] < t.visited[l]
           /\ t.iter # end_iter => (t.iter \in DOMAIN mask /\ mask[t.iter])
           /\ Len(t.visited) <= rows(last.a)
           /\ (t.iter = end_iter) <=> (Len(t.visited) = rows(last.a))
           /\ t.iter = end_iter => {t.visited[k] : k \in DOMAIN t.visited} = ActiveRows(last.a)
           /\ t.pass = 2 =>
                 /\ Len(t.visited) <= Len(t.first)
                 /\ \A k \in DOMAIN t.visited : t.visited[k] = t.first[k]
                 /\ t.iter = end_iter => t.visited = t.first

TraversalEnded ==
    /\ last.op = "traverse"
    /\ last.out.iter = Len(loaders[last.a.m_loader].m_data) + 1

\* C14: for every row mask, a traversal of rows_of(view) from begin to end
\* visits exactly the indices whose mask bit is set, each once, in strictly
\* increasing storage order, never dereferences a masked-out or past-the-end
\* element, and ends after rows() steps; a second traversal yields the same
\* sequence.
C14_TraversalVisitsActiveRows ==
    /\ []TraversalSafe
    /\ (last.op = "traverse") ~> TraversalEnded

\* The end of a second traversal of three rows of which the middle one is
\* masked out.
C14_Witness ==
    /\ TraversalEnded
    /\ last.out.pass = 2
    /\ last.a.m_row_mask = <<TRUE, FALSE, TRUE>>
    /\ last.out.visited = <<1, 3>>

\* The masks of df have the extents of the storage df refers to.
MasksFit(df) ==
    /\ Len(df.m_row_mask) = Len(loaders[df.m_loader].m_data)
    /\ Len(df.m_col_mask) = Len(loaders[df.m_loader].m_header)

\* C15: in every view that load, project, compare, and/or, select_rows and
\* select_cols produce, the row mask has as many entries as the view's storage
\* has rows and the column mask as many as its header has names; a view made
\* from views refers to the storage of all its operands, so no mask comes
\* from a view of another storage.
C15_MasksFitStorage ==
    /\ \A df \in views : MasksFit(df)
    /\ (last.op = "load" /\ last.err = "none") =>
          /\ Len(last.df.m_row_mask) = Len(last.arg[1]) - 1
          /\ Len(last.df.m_col_mask) = Len(extract_line(last.arg[1][1], -1))
    /\ (last.op \in ReturnsView \ {"load"} /\ last.err = "none") =>
          /\ MasksFit(last.df)
          /\ last.df.m_loader = last.a.m_loader
          /\ last.b # NoView => last.b.m_loader = last.a.m_loader

\* A select_rows that takes a row mask with an inactive row from a view of the
\* same storage, while the caller also holds a view of a storage with another
\* number of rows.
C15_Witness ==
    /\ last.op = "select_rows"
    /\ last.err = "none"
    /\ last.b.m_row_mask # last.a.m_row_mask
    /\ \E df \in views :
          /\ df.m_loader # last.a.m_loader
          /\ Len(df.m_row_mask) # Len(last.a.m_row_mask)

\* C16: filtering composes as intersection. For a view V and two comparisons
\* whose arity is V's active column count, the second comparison applied to
\* the result of the first has the row mask of the and of the two comparisons
\* of V, and the row mask of the first applied to the result of the second.
C16_FiltersCompose ==
    (last.op = "filter_again" /\ Len(last.arg[4]) = Cardinality(ActiveCols(last.a))) =>
        LET o == last.out
        IN /\ o.chained.err = "none"
           /\ o.combined.err = "none"
           /\ o.reversed.err = "none"
           /\ o.chained.df.m_row_mask = o.combined.df.m_row_mask
           /\ o.chained.df.m_row_mask = o.reversed.df.m_row_mask

\* Two filters on two columns of which each keeps a row the other drops, and
\* a row that both keep.
C16_Witness ==
    /\ last.op = "filter_again"
    /\ last.out.chained.err = "none"
    /\ Len(last.arg[4]) = 2
    /\ ActiveRows(last.b) \ ActiveRows(last.out.second.df) # {}
    /\ ActiveRows(last.out.second.df) \ ActiveRows(last.b) # {}
    /\ ActiveRows(last.out.chained.df) # {}

====
